---- MODULE Spec2Model ----
(***************************************************************************)
(* Crypto Portfolio Risk Analyzer: the HTTP boundary (server.ts), the      *)
(* orchestrator analyzeWallet (index.ts), the collectors (etherscan.ts,    *)
(* dexscreener.ts) and the risk engine (analyzer.ts).                      *)
(*                                                                         *)
(* Numbers.  Scores, liquidity and USD amounts are integers here.  A       *)
(* portfolio percentage is the exact rational num/den (a record            *)
(* [num, den]); comparisons are done by cross-multiplication.  Every token *)
(* of the modelled inputs has 18 decimals and a balance that is a whole    *)
(* multiple of 10^18, so rawBalance is a small integer.  analyzedAt (the   *)
(* wall clock) and the MarketData fields the engine never reads            *)
(* (marketCapUsd, volume24h, dexUrl) are left out.                         *)
(***************************************************************************)
EXTENDS Integers, Sequences, FiniteSets, TLC

VARIABLES pc, req, holdings, dexDataMap, dexNext, verifiedResults,
          calls, failures, response, scoreArgs, tokenRisk

vars == <<pc, req, holdings, dexDataMap, dexNext, verifiedResults,
          calls, failures, response, scoreArgs, tokenRisk>>

(* ------------------------------ bounds --------------------------------- *)

\* longest holdings sequence handed to the engine in SpecEngine
MaxHoldings == 3
\* longest tokentx result list the block explorer returns in Spec
MaxTxs == 3

(* --------------------------- generic helpers --------------------------- *)

Min(a, b) == IF a < b THEN a ELSE b

Abs(x) == IF x < 0 THEN -x ELSE x

Range(s) == {s[i] : i \in 1..Len(s)}

RECURSIVE SumSeq(_)
SumSeq(s) == IF s = <<>> THEN 0 ELSE Head(s) + SumSeq(Tail(s))

RECURSIVE SelectSeqBy(_, _)
\* Array.prototype.filter with the predicate given as the set of kept values
SelectSeqBy(s, keep) ==
    IF s = <<>> THEN <<>>
    ELSE IF Head(s) \in keep THEN <<Head(s)>> \o SelectSeqBy(Tail(s), keep)
         ELSE SelectSeqBy(Tail(s), keep)

\* a JS value that is null / undefined
null == [present |-> FALSE]

\* the rational num/den
Pct(n, d) == [num |-> n, den |-> d]

\* pct > k  for an integer k
PctGt(p, k) == p.num > k * p.den

\* Number.prototype.toFixed(1) of a percentage, in tenths (ties away from zero
\* on the exact value)
toFixed1(p) == (20 * p.num + p.den) \div (2 * p.den)

\* Number.prototype.toFixed(0) of a percentage
toFixed0(p) == (2 * p.num + p.den) \div (2 * p.den)

(* ------------------------- analyzer.ts: scorer ------------------------- *)

\* Contract verification block of scoreTokenRisk
verificationPenalty(isVerified) ==
    IF ~isVerified
    THEN [points |-> 30, flags |-> <<[kind |-> "UnverifiedContract", arg |-> 0]>>]
    ELSE [points |-> 0, flags |-> <<>>]

\* the test `!dexData` of scoreTokenRisk
noDexData_zeroIsMissing(dexData) ==
    ~dexData.present \/ dexData.liquidityUsd = 0
noDexData(dexData) == ~dexData.present

\* liquidity tier of a present record
liquidityTier(dexData) ==
    IF dexData.liquidityUsd < 10000
    THEN [points |-> 35,
          flags |-> <<[kind |-> "CriticallyLowLiquidity", arg |-> dexData.liquidityUsd]>>]
    ELSE IF dexData.liquidityUsd < 50000
    THEN [points |-> 20,
          flags |-> <<[kind |-> "LowLiquidity", arg |-> dexData.liquidityUsd]>>]
    ELSE IF dexData.liquidityUsd < 500000
    THEN [points |-> 5, flags |-> <<>>]
    ELSE [points |-> 0, flags |-> <<>>]

\* liquidity-lock check of a present record
lockPenalty(dexData) ==
    IF ~dexData.hasLiquidityLock
    THEN [points |-> 15, flags |-> <<[kind |-> "NoLiquidityLock", arg |-> 0]>>]
    ELSE [points |-> 0, flags |-> <<>>]

\* volatility check of a present record
volatilityPenalty(dexData) ==
    IF Abs(dexData.priceChange24h) > 30
    THEN [points |-> 10,
          flags |-> <<[kind |-> "HighVolatility", arg |-> dexData.priceChange24h]>>]
    ELSE [points |-> 0, flags |-> <<>>]

\* Liquidity checks block of scoreTokenRisk: the two branches of `if (!dexData)`
liquidityPenalty_noElse(dexData) ==
    LET missing == [points |-> 25, flags |-> <<[kind |-> "NoLiquidityData", arg |-> 0]>>]
        lock == IF noDexData(dexData)
                THEN [points |-> 15, flags |-> <<[kind |-> "NoLiquidityLock", arg |-> 0]>>]
                ELSE lockPenalty(dexData)
    IN  IF noDexData(dexData)
        THEN [points |-> missing.points + lock.points,
              flags |-> missing.flags \o lock.flags]
        ELSE [points |-> liquidityTier(dexData).points + lock.points
                           + volatilityPenalty(dexData).points,
              flags |-> liquidityTier(dexData).flags \o lock.flags
                           \o volatilityPenalty(dexData).flags]
liquidityPenalty(dexData) ==
    IF noDexData(dexData)
    THEN [points |-> 25, flags |-> <<[kind |-> "NoLiquidityData", arg |-> 0]>>]
    ELSE [points |-> liquidityTier(dexData).points + lockPenalty(dexData).points
                       + volatilityPenalty(dexData).points,
          flags |-> liquidityTier(dexData).flags \o lockPenalty(dexData).flags
                       \o volatilityPenalty(dexData).flags]

\* Concentration risk block of scoreTokenRisk
concentrationPenalty(portfolioPercent) ==
    IF PctGt(portfolioPercent, 70)
    THEN [points |-> 20,
          flags |-> <<[kind |-> "ExtremeConcentration", arg |-> toFixed1(portfolioPercent)]>>]
    ELSE IF PctGt(portfolioPercent, 50)
    THEN [points |-> 10,
          flags |-> <<[kind |-> "HighConcentration", arg |-> toFixed1(portfolioPercent)]>>]
    ELSE [points |-> 0, flags |-> <<>>]

\* riskScore = Math.min(100, riskScore)
capScore_uncapped(riskScore) == riskScore
capScore(riskScore) == Min(100, riskScore)

scoreTokenRisk(holding, portfolioPercent, dexData, isVerified) ==
    LET v == verificationPenalty(isVerified)
        l == liquidityPenalty(dexData)
        c == concentrationPenalty(portfolioPercent)
    IN  [symbol |-> holding.tokenSymbol,
         contractAddress |-> holding.contractAddress,
         portfolioPercentage |-> portfolioPercent,
         \* dexData?.liquidityUsd || 0
         liquidityUsd |-> IF noDexData(dexData) THEN 0 ELSE dexData.liquidityUsd,
         isContractVerified |-> isVerified,
         \* dexData?.hasLiquidityLock || false
         hasLiquidityLock |-> IF noDexData(dexData) THEN FALSE
                              ELSE dexData.hasLiquidityLock,
         riskScore |-> capScore(v.points + l.points + c.points),
         flags |-> v.flags \o l.flags \o c.flags]

(* ------------------------- analyzer.ts: engine ------------------------- *)

\* JS truthiness of the optional number holding.usdValue
truthy(usdValue) == usdValue.present /\ usdValue.value # 0

\* portfolioPercent of one holding in buildRiskReport
portfolioPercentOf(holding, nHoldings, estimatedPortfolioUsd) ==
    IF estimatedPortfolioUsd > 0 /\ truthy(holding.usdValue)
    THEN Pct(holding.usdValue.value * 100, estimatedPortfolioUsd)
    ELSE Pct(100, nHoldings)

\* dexDataMap.get(addr) || null
dexDataOf(map, addr) == IF addr \in DOMAIN map THEN map[addr] ELSE null

\* verifiedMap.get(addr) || false
verifiedOf(map, addr) == IF addr \in DOMAIN map THEN map[addr] ELSE FALSE

\* one step of the stable sort with comparator (a, b) => b.riskScore - a.riskScore:
\* t goes behind every entry whose score is at least its own
insertByScore_unstable(sorted, t) ==
    LET ahead == {i \in 1..Len(sorted) : sorted[i].riskScore > t.riskScore}
        k == Cardinality(ahead)
    IN  SubSeq(sorted, 1, k) \o <<t>> \o SubSeq(sorted, k + 1, Len(sorted))
insertByScore(sorted, t) ==
    LET ahead == {i \in 1..Len(sorted) : sorted[i].riskScore >= t.riskScore}
        k == Cardinality(ahead)
    IN  SubSeq(sorted, 1, k) \o <<t>> \o SubSeq(sorted, k + 1, Len(sorted))

RECURSIVE sortByScoreFrom(_, _)
sortByScoreFrom(sorted, rest) ==
    IF rest = <<>> THEN sorted
    ELSE sortByScoreFrom(insertByScore(sorted, Head(rest)), Tail(rest))

\* tokenRisks.sort((a, b) => b.riskScore - a.riskScore)
sortByScore(tokenRisks) == sortByScoreFrom(<<>>, tokenRisks)

\* Math.round(avgScore * 0.6 + maxScore * 0.4) over the sorted list.  The exact
\* value is (6*sum + 4*n*max) / (10*n); Math.round rounds halves up.
overallScoreOf_floor(tokenRisks) ==
    LET n == Len(tokenRisks)
        sum == SumSeq([i \in 1..n |-> tokenRisks[i].riskScore])
        maxScore == IF n > 0 THEN tokenRisks[1].riskScore ELSE 0
    IN  IF n = 0 THEN 0
        ELSE (12 * sum + 8 * n * maxScore) \div (20 * n)
overallScoreOf(tokenRisks) ==
    LET n == Len(tokenRisks)
        sum == SumSeq([i \in 1..n |-> tokenRisks[i].riskScore])
        maxScore == IF n > 0 THEN tokenRisks[1].riskScore ELSE 0
    IN  IF n = 0 THEN 0
        ELSE (12 * sum + 8 * n * maxScore + 10 * n) \div (20 * n)

\* the riskLevel ladder of buildRiskReport
riskLevelOf_strict(overallRiskScore) ==
    IF overallRiskScore > 70 THEN "CRITICAL"
    ELSE IF overallRiskScore > 50 THEN "HIGH"
    ELSE IF overallRiskScore > 30 THEN "MEDIUM"
    ELSE "LOW"
riskLevelOf(overallRiskScore) ==
    IF overallRiskScore >= 70 THEN "CRITICAL"
    ELSE IF overallRiskScore >= 50 THEN "HIGH"
    ELSE IF overallRiskScore >= 30 THEN "MEDIUM"
    ELSE "LOW"

\* tokenRisks.some((t) => t.portfolioPercentage > 50)
concentrationRiskOf_atLeast(tokenRisks) ==
    \E i \in 1..Len(tokenRisks) :
        tokenRisks[i].portfolioPercentage.num >= 50 * tokenRisks[i].portfolioPercentage.den
concentrationRiskOf(tokenRisks) ==
    \E i \in 1..Len(tokenRisks) : PctGt(tokenRisks[i].portfolioPercentage, 50)

rugPullRiskOf(tokenRisks) ==
    \E i \in 1..Len(tokenRisks) :
        ~tokenRisks[i].isContractVerified /\ ~tokenRisks[i].hasLiquidityLock

lowLiquidityRiskOf(tokenRisks) ==
    \E i \in 1..Len(tokenRisks) :
        tokenRisks[i].liquidityUsd > 0 /\ tokenRisks[i].liquidityUsd < 50000

highVolatilityRiskOf(tokenRisks) ==
    \E i \in 1..Len(tokenRisks) :
        PctGt(tokenRisks[i].portfolioPercentage, 30) /\ tokenRisks[i].riskScore > 50

symbolsOf(ts) == [i \in 1..Len(ts) |-> ts[i].symbol]

\* tokenRisks.filter((t) => t.portfolioPercentage > 50) of buildRecommendations
concentratedOf_atLeast(tokenRisks) ==
    SelectSeqBy(tokenRisks,
        {t \in Range(tokenRisks) : t.portfolioPercentage.num >= 50 * t.portfolioPercentage.den})
concentratedOf(tokenRisks) ==
    SelectSeqBy(tokenRisks, {t \in Range(tokenRisks) : PctGt(t.portfolioPercentage, 50)})

\* if (overallScore < 30): the "looks relatively safe" advisory
looksSafe_atMost(overallScore) == overallScore <= 30
looksSafe(overallScore) == overallScore < 30

buildRecommendations(tokenRisks, overallScore) ==
    LET all == Range(tokenRisks)
        highRisk == SelectSeqBy(tokenRisks, {t \in all : t.riskScore >= 70})
        unverified == SelectSeqBy(tokenRisks, {t \in all : ~t.isContractVerified})
        lowLiquidity == SelectSeqBy(tokenRisks,
                            {t \in all : t.liquidityUsd < 50000 /\ t.liquidityUsd > 0})
        concentrated == concentratedOf(tokenRisks)
    IN  (IF Len(highRisk) > 0
         THEN <<[kind |-> "ReduceHighRisk", symbols |-> symbolsOf(highRisk), n |-> 0]>>
         ELSE <<>>)
        \o (IF Len(unverified) > 0
            THEN <<[kind |-> "Unverified", symbols |-> symbolsOf(unverified),
                    n |-> Len(unverified)]>>
            ELSE <<>>)
        \o (IF Len(lowLiquidity) > 0
            THEN <<[kind |-> "LowLiquidity", symbols |-> symbolsOf(lowLiquidity), n |-> 0]>>
            ELSE <<>>)
        \o (IF Len(concentrated) > 0
            THEN <<[kind |-> "Diversify", symbols |-> <<concentrated[1].symbol>>,
                    n |-> toFixed0(concentrated[1].portfolioPercentage)]>>
            ELSE <<>>)
        \o (IF looksSafe(overallScore)
            THEN <<[kind |-> "LooksSafe", symbols |-> <<>>, n |-> 0]>>
            ELSE <<>>)

\* walletAddress.slice(0, 6) and walletAddress.slice(-4)
sliceHead(w) == SubSeq(w, 1, Min(6, Len(w)))
sliceTail(w) == SubSeq(w, IF Len(w) > 4 THEN Len(w) - 3 ELSE 1, Len(w))

buildSummary(walletAddress, riskLevel, overallScore, tokenRisks) ==
    LET sorted == sortByScore(tokenRisks)
    IN  [kind |-> "RiskProfile",
         head |-> sliceHead(walletAddress), tail |-> sliceTail(walletAddress),
         riskLevel |-> riskLevel, score |-> overallScore, tokens |-> Len(tokenRisks),
         topRisk |-> IF Len(sorted) > 0
                     THEN <<[symbol |-> sorted[1].symbol, riskScore |-> sorted[1].riskScore]>>
                     ELSE <<>>]

buildRiskReport(walletAddress, chainId, chainName, hs, dexMap, verifiedMap, estimatedPortfolioUsd) ==
    LET scored == [i \in 1..Len(hs) |->
                      scoreTokenRisk(hs[i],
                          portfolioPercentOf(hs[i], Len(hs), estimatedPortfolioUsd),
                          dexDataOf(dexMap, hs[i].contractAddress),
                          verifiedOf(verifiedMap, hs[i].contractAddress))]
        tokenRisks == sortByScore(scored)
        overallRiskScore == overallScoreOf(tokenRisks)
        riskLevel == riskLevelOf(overallRiskScore)
    IN  [walletAddress |-> walletAddress,
         chainId |-> chainId,
         chainName |-> chainName,
         totalTokensFound |-> Len(hs),
         estimatedPortfolioUsd |-> estimatedPortfolioUsd,
         overallRiskScore |-> overallRiskScore,
         riskLevel |-> riskLevel,
         tokenRisks |-> tokenRisks,
         flags |-> [concentrationRisk |-> concentrationRiskOf(tokenRisks),
                    rugPullRisk |-> rugPullRiskOf(tokenRisks),
                    lowLiquidityRisk |-> lowLiquidityRiskOf(tokenRisks),
                    highVolatilityRisk |-> highVolatilityRiskOf(tokenRisks)],
         summary |-> buildSummary(walletAddress, riskLevel, overallRiskScore, tokenRisks),
         recommendations |-> buildRecommendations(tokenRisks, overallRiskScore)]

(* ------------------------- etherscan.ts collectors ---------------------- *)

\* String.prototype.toLowerCase on the contract addresses of the model
toLowerCase(addr) == IF addr = "0xAA" THEN "0xaa" ELSE addr

\* parseFloat(holding.balance) / Math.pow(10, holding.decimals).  With 18
\* decimals the balances of the model are whole tokens; Math.pow(10, d) is
\* Infinity for d above 308 and a finite balance divided by it is 0.
rawBalanceOf(balance, decimals) ==
    IF decimals > 308 THEN 0
    ELSE CASE balance = "2000000000000000000" -> 2
           [] balance = "3000000000000000000" -> 3
           [] OTHER -> 0

\* parseInt(tx.tokenDecimal) || 18
decimalsOf(tokenDecimal) ==
    CASE tokenDecimal = "18" -> 18
      [] tokenDecimal = "6" -> 6
      [] tokenDecimal = "400" -> 400
      [] OTHER -> 18

\* .slice(0, 20) of getTokenHoldings
HoldingsCap == 20

\* getTokenBalance: response.data.result || "0", "0" on any error
getTokenBalance(resp) ==
    IF resp.kind = "error" THEN "0"
    ELSE IF resp.result = "" THEN "0" ELSE resp.result

RECURSIVE tokenMapOf(_, _)
\* the tokenMap loop of getTokenHoldings: first transfer of each lowercased
\* contract address, in discovery order
tokenMapOf(txs, seen) ==
    IF txs = <<>> THEN <<>>
    ELSE LET addr == toLowerCase(Head(txs).contractAddress)
         IN  IF addr \in seen THEN tokenMapOf(Tail(txs), seen)
             ELSE <<[contractAddress |-> addr,
                     tokenSymbol |-> Head(txs).tokenSymbol,
                     balance |-> "0",
                     decimals |-> decimalsOf(Head(txs).tokenDecimal),
                     usdValue |-> null]>>
                  \o tokenMapOf(Tail(txs), seen \cup {addr})

\* getTokenHoldings: txResp is the tokentx response, balResp the tokenbalance
\* response per contract address.  [threw, value].
getTokenHoldings(txResp, balResp) ==
    IF txResp.kind = "error" THEN [threw |-> FALSE, value |-> <<>>]
    ELSE IF txResp.status # "1" THEN [threw |-> FALSE, value |-> <<>>]
    ELSE LET all == tokenMapOf(txResp.result, {})
             tokens == SubSeq(all, 1, Min(HoldingsCap, Len(all)))
             filled == [i \in 1..Len(tokens) |->
                          [tokens[i] EXCEPT
                              !.balance = getTokenBalance(balResp[tokens[i].contractAddress])]]
         IN  [threw |-> FALSE,
              value |-> SelectSeqBy(filled,
                           {t \in Range(filled) : t.balance # "0" /\ t.balance # ""})]

\* isContractVerified: false on any error.  [threw, value].
isContractVerified(resp) ==
    IF resp.kind = "error" THEN [threw |-> FALSE, value |-> FALSE]
    ELSE [threw |-> FALSE, value |-> resp.sourceCodeLen > 0]

(* ------------------------ dexscreener.ts collector ---------------------- *)

\* CHAIN_MAP[chainId] || "ethereum"
CHAIN_MAP(chainId) ==
    CASE chainId = 1 -> "ethereum"
      [] chainId = 56 -> "bsc"
      [] chainId = 137 -> "polygon"
      [] OTHER -> "ethereum"

\* parseFloat(best.priceUsd || "0") on the price strings of the model
parseFloatOf(str) == CASE str = "1" -> 1 [] OTHER -> 0

\* the DexTokenData record built from the best pair
dexRecordOf(best) ==
    [present |-> TRUE,
     priceUsd |-> parseFloatOf(best.priceUsd),
     liquidityUsd |-> best.liquidityUsd,
     priceChange24h |-> best.priceChange24h,
     hasLiquidityLock |-> best.liquidityUsd > 100000]

\* pairs.filter(chain).sort(liquidity desc)[0]: the first pair of the chain
\* whose liquidity is the largest
bestPairOf(pairs, chain) ==
    LET relevant == SelectSeqBy(pairs, {p \in Range(pairs) : p.chainId = chain})
        top == CHOOSE i \in 1..Len(relevant) :
                  /\ \A j \in 1..Len(relevant) :
                        relevant[j].liquidityUsd <= relevant[i].liquidityUsd
                  /\ \A j \in 1..(i - 1) :
                        relevant[j].liquidityUsd < relevant[i].liquidityUsd
    IN  IF relevant = <<>> THEN <<>> ELSE <<relevant[top]>>

\* getTokenDexData: null on any error or when no pair is on the chain.
\* [threw, value].
getTokenDexData_rethrow(resp, chainId) ==
    IF resp.kind = "error" THEN [threw |-> TRUE, value |-> null]
    ELSE IF bestPairOf(resp.pairs, CHAIN_MAP(chainId)) = <<>>
    THEN [threw |-> FALSE, value |-> null]
    ELSE [threw |-> FALSE,
          value |-> dexRecordOf(bestPairOf(resp.pairs, CHAIN_MAP(chainId))[1])]
getTokenDexData(resp, chainId) ==
    IF resp.kind = "error" THEN [threw |-> FALSE, value |-> null]
    ELSE IF bestPairOf(resp.pairs, CHAIN_MAP(chainId)) = <<>>
    THEN [threw |-> FALSE, value |-> null]
    ELSE [threw |-> FALSE,
          value |-> dexRecordOf(bestPairOf(resp.pairs, CHAIN_MAP(chainId))[1])]

(* ------------------------------ inputs ---------------------------------- *)

RECURSIVE Rep(_, _)
Rep(c, n) == IF n = 0 THEN <<>> ELSE <<c>> \o Rep(c, n - 1)

\* number of hex digits the address pattern of POST /analyze asks for
AddressHexDigits == 40

HexDigits == {"0", "1", "2", "3", "4", "5", "6", "7", "8", "9",
              "a", "b", "c", "d", "e", "f", "A", "B", "C", "D", "E", "F"}

GoodWallet == <<"0", "x">> \o Rep("a", AddressHexDigits)

\* wallet addresses a caller may send: well formed, one digit short, a
\* non-hex digit, no 0x prefix, empty
WalletInputs ==
    {GoodWallet,
     <<"0", "x">> \o Rep("a", AddressHexDigits - 1),
     <<"0", "x">> \o Rep("a", AddressHexDigits - 1) \o <<"g">>,
     Rep("a", AddressHexDigits + 2),
     <<>>}

ChainInputs == {1, 56, 137, 5}

\* transfers the block explorer may list
TxInputs ==
    {[contractAddress |-> "0xAA", tokenSymbol |-> "AAA", tokenDecimal |-> "18"],
     [contractAddress |-> "0xaa", tokenSymbol |-> "aaa", tokenDecimal |-> "18"],
     [contractAddress |-> "0xbb", tokenSymbol |-> "BBB", tokenDecimal |-> "18"],
     [contractAddress |-> "0xbb", tokenSymbol |-> "BBB", tokenDecimal |-> "400"]}

SeqsUpTo(S, n) == UNION {[1..k -> S] : k \in 0..n}

TxResponses ==
    {[kind |-> "error"], [kind |-> "ok", status |-> "0", result |-> <<>>]}
    \cup {[kind |-> "ok", status |-> "1", result |-> txs] : txs \in SeqsUpTo(TxInputs, MaxTxs)}

BalanceResponses ==
    {[kind |-> "error"],
     [kind |-> "ok", result |-> ""],
     [kind |-> "ok", result |-> "2000000000000000000"],
     [kind |-> "ok", result |-> "3000000000000000000"]}

PipeContracts == {"0xaa", "0xbb"}

VerifyResponses ==
    {[kind |-> "error"], [kind |-> "ok", sourceCodeLen |-> 0],
     [kind |-> "ok", sourceCodeLen |-> 1]}

PairList ==
    <<[chainId |-> "ethereum", liquidityUsd |-> 20000, priceUsd |-> "1",
       priceChange24h |-> 0],
      [chainId |-> "ethereum", liquidityUsd |-> 1000000, priceUsd |-> "1",
       priceChange24h |-> 0],
      [chainId |-> "bsc", liquidityUsd |-> 5000, priceUsd |-> "1",
       priceChange24h |-> -40]>>

DexResponses ==
    {[kind |-> "error"], [kind |-> "ok", pairs |-> <<>>], [kind |-> "ok", pairs |-> PairList]}

(* ------------------------- server.ts and index.ts ----------------------- *)

\* /^0x[a-fA-F0-9]{40}$/.test(walletAddress)
matchesAddressPattern(w) ==
    /\ Len(w) = AddressHexDigits + 2
    /\ w[1] = "0"
    /\ w[2] = "x"
    /\ \A i \in 3..Len(w) : w[i] \in HexDigits

supportedChains == {1, 56, 137}

\* CHAIN_NAMES[chainId] || `Chain ${chainId}`
CHAIN_NAMES(chainId) ==
    CASE chainId = 1 -> "Ethereum Mainnet"
      [] chainId = 56 -> "BNB Smart Chain"
      [] chainId = 137 -> "Polygon"
      [] OTHER -> "Chain other"

noResponse == [status |-> 0, kind |-> "none"]

noCalls == [holdings |-> 0, dex |-> 0, verify |-> 0, build |-> 0]

\* the report analyzeWallet returns for a wallet without holdings
emptyReport(walletAddress, chainId, chainName) ==
    [walletAddress |-> walletAddress,
     chainId |-> chainId,
     chainName |-> chainName,
     totalTokensFound |-> 0,
     estimatedPortfolioUsd |-> 0,
     overallRiskScore |-> 0,
     riskLevel |-> "LOW",
     tokenRisks |-> <<>>,
     flags |-> [concentrationRisk |-> FALSE, rugPullRisk |-> FALSE,
                lowLiquidityRisk |-> FALSE, highVolatilityRisk |-> FALSE],
     summary |-> [kind |-> "NoHoldings", head |-> sliceHead(walletAddress),
                  tail |-> sliceTail(walletAddress)],
     recommendations |-> <<[kind |-> "NoTokensFound", symbols |-> <<>>, n |-> 0]>>]

\* the handler's answer to a report or to an exception out of analyzeWallet
reportResponse(endpoint, report) ==
    [status |-> 200, kind |-> "report", endpoint |-> endpoint, report |-> report]
failedResponse(endpoint) ==
    [status |-> 500, kind |-> "failed", endpoint |-> endpoint]

Init ==
    /\ pc = "idle"
    /\ req = [endpoint |-> "none", walletAddress |-> <<>>, chainId |-> 0]
    /\ holdings = <<>>
    /\ dexDataMap = <<>>
    /\ dexNext = 0
    /\ verifiedResults = <<>>
    /\ calls = noCalls
    /\ failures = {}
    /\ response = noResponse
    /\ scoreArgs = null
    /\ tokenRisk = null

\* the test `holdings.length === 0` of analyzeWallet
isEmptyWallet_never(hs) == FALSE
isEmptyWallet(hs) == Len(hs) = 0

\* Map.prototype.set
mapSet(map, key, value) ==
    [k \in (DOMAIN map) \cup {key} |-> IF k = key THEN value ELSE map[k]]

\* analyzeWallet up to its first await: getTokenHoldings is called
startAnalysis(endpoint, walletAddress, chainId) ==
    /\ pc' = "holdings"
    /\ req' = [endpoint |-> endpoint, walletAddress |-> walletAddress, chainId |-> chainId]
    /\ calls' = [calls EXCEPT !.holdings = @ + 1]
    /\ UNCHANGED response

\* app.post("/analyze")
PostAnalyze ==
    /\ pc = "idle"
    /\ \E walletAddress \in WalletInputs, chainId \in ChainInputs :
          IF walletAddress = <<>> \/ ~matchesAddressPattern(walletAddress)
          THEN /\ pc' = "done"
               /\ req' = [endpoint |-> "analyze", walletAddress |-> walletAddress,
                          chainId |-> chainId]
               /\ response' = [status |-> 400, kind |-> "invalid_address"]
               /\ UNCHANGED calls
          ELSE IF chainId \notin supportedChains
          THEN /\ pc' = "done"
               /\ req' = [endpoint |-> "analyze", walletAddress |-> walletAddress,
                          chainId |-> chainId]
               /\ response' = [status |-> 400, kind |-> "unsupported_chain"]
               /\ UNCHANGED calls
          ELSE startAnalysis("analyze", walletAddress, chainId)
    /\ UNCHANGED <<holdings, dexDataMap, dexNext, verifiedResults, failures,
                   scoreArgs, tokenRisk>>

\* app.post("/job"): destructuring an absent payload throws into the catch
PostJob ==
    /\ pc = "idle"
    /\ \/ \E walletAddress \in WalletInputs, chainId \in ChainInputs :
             startAnalysis("job", walletAddress, chainId)
       \/ /\ pc' = "done"
          /\ req' = [endpoint |-> "job", walletAddress |-> <<>>, chainId |-> 0]
          /\ response' = failedResponse("job")
          /\ UNCHANGED calls
    /\ UNCHANGED <<holdings, dexDataMap, dexNext, verifiedResults, failures,
                   scoreArgs, tokenRisk>>

\* analyzeWallet from the answer of getTokenHoldings to its next await
HoldingsResolve ==
    /\ pc = "holdings"
    /\ \E txResp \in TxResponses, balResp \in [PipeContracts -> BalanceResponses] :
          LET got == getTokenHoldings(txResp, balResp)
              chainName == CHAIN_NAMES(req.chainId)
          IN  /\ failures' = IF txResp.kind = "error" THEN {<<"holdings", "">>} ELSE {}
              /\ IF got.threw
                 THEN /\ pc' = "done"
                      /\ response' = failedResponse(req.endpoint)
                      /\ UNCHANGED <<holdings, dexNext, verifiedResults, calls>>
                 ELSE IF isEmptyWallet(got.value)
                 THEN /\ pc' = "done"
                      /\ response' = reportResponse(req.endpoint,
                                        emptyReport(req.walletAddress, req.chainId, chainName))
                      /\ UNCHANGED <<holdings, dexNext, verifiedResults, calls>>
                 ELSE /\ pc' = "lookups"
                      /\ holdings' = got.value
                      \* batchGetDexData issues its first lookup, then every
                      \* isContractVerified call is issued
                      /\ dexNext' = 1
                      /\ verifiedResults' = [i \in 1..Len(got.value) |-> [status |-> "pending"]]
                      /\ calls' = [calls EXCEPT
                                      !.dex = @ + (IF Len(got.value) > 0 THEN 1 ELSE 0),
                                      !.verify = @ + Len(got.value)]
                      /\ UNCHANGED response
    /\ UNCHANGED <<req, dexDataMap, scoreArgs, tokenRisk>>

\* batchGetDexData: the pending getTokenDexData answers, the entry is stored
\* under the lowercased address and, after the 200 ms pause, the next lookup is
\* issued.  An exception out of getTokenDexData rejects Promise.all.
DexResolve ==
    /\ pc = "lookups"
    /\ dexNext \in 1..Len(holdings)
    /\ \E resp \in DexResponses :
          LET addr == holdings[dexNext].contractAddress
              got == getTokenDexData(resp, req.chainId)
          IN  /\ failures' = IF resp.kind = "error"
                             THEN failures \cup {<<"dex", addr>>} ELSE failures
              /\ IF got.threw
                 THEN /\ pc' = "done"
                      /\ response' = failedResponse(req.endpoint)
                      /\ UNCHANGED <<dexDataMap, dexNext, calls>>
                 ELSE /\ dexDataMap' = mapSet(dexDataMap, toLowerCase(addr), got.value)
                      /\ dexNext' = dexNext + 1
                      /\ calls' = [calls EXCEPT
                                      !.dex = @ + (IF dexNext < Len(holdings) THEN 1 ELSE 0)]
                      /\ UNCHANGED <<pc, response>>
    /\ UNCHANGED <<req, holdings, verifiedResults, scoreArgs, tokenRisk>>

\* one isContractVerified promise of the Promise.allSettled settles
VerifyResolve ==
    /\ pc = "lookups"
    /\ \E i \in 1..Len(holdings), resp \in VerifyResponses :
          LET got == isContractVerified(resp)
          IN  /\ verifiedResults[i].status = "pending"
              /\ verifiedResults' = [verifiedResults EXCEPT ![i] =
                    IF got.threw THEN [status |-> "rejected"]
                    ELSE [status |-> "fulfilled", value |-> got.value]]
              /\ failures' = IF resp.kind = "error"
                             THEN failures \cup {<<"verify", holdings[i].contractAddress>>}
                             ELSE failures
    /\ UNCHANGED <<pc, req, holdings, dexDataMap, dexNext, calls, response,
                   scoreArgs, tokenRisk>>

RECURSIVE verifiedMapOf(_, _, _)
\* the forEach that builds verifiedMap from the settled results
verifiedMapOf(hs, results, i) ==
    IF i = 0 THEN <<>>
    ELSE mapSet(verifiedMapOf(hs, results, i - 1), hs[i].contractAddress,
                IF results[i].status = "fulfilled" THEN results[i].value ELSE FALSE)

\* Step 4 of analyzeWallet: usdValue of every holding with a priced record
pricedHoldings(hs, dexMap) ==
    [i \in 1..Len(hs) |->
        LET addr == hs[i].contractAddress
        IN  IF addr \in DOMAIN dexMap /\ dexMap[addr].present /\ dexMap[addr].priceUsd > 0
            THEN [hs[i] EXCEPT !.usdValue =
                     [present |-> TRUE,
                      value |-> rawBalanceOf(hs[i].balance, hs[i].decimals)
                                   * dexMap[addr].priceUsd]]
            ELSE hs[i]]

estimatedPortfolioUsdOf(hs) ==
    SumSeq([i \in 1..Len(hs) |-> IF hs[i].usdValue.present THEN hs[i].usdValue.value ELSE 0])

\* await Promise.all([batchGetDexData(...), Promise.allSettled([...])]): the
\* batch has gone through every contract and every verification has settled
lookupsResolved_race(next, hs, results) ==
    \/ next = Len(hs) + 1
    \/ \A i \in 1..Len(hs) : results[i].status # "pending"
lookupsResolved(next, hs, results) ==
    /\ next = Len(hs) + 1
    /\ \A i \in 1..Len(hs) : results[i].status # "pending"

\* analyzeWallet once Promise.all has resolved: verifiedMap, the USD estimate,
\* buildRiskReport, and the handler's answer
Finish ==
    /\ pc = "lookups"
    /\ lookupsResolved(dexNext, holdings, verifiedResults)
    /\ LET verifiedMap == verifiedMapOf(holdings, verifiedResults, Len(holdings))
           priced == pricedHoldings(holdings, dexDataMap)
           estimatedPortfolioUsd == estimatedPortfolioUsdOf(priced)
       IN  /\ holdings' = priced
           /\ response' = reportResponse(req.endpoint,
                             buildRiskReport(req.walletAddress, req.chainId,
                                 CHAIN_NAMES(req.chainId), priced, dexDataMap,
                                 verifiedMap, estimatedPortfolioUsd))
    /\ calls' = [calls EXCEPT !.build = @ + 1]
    /\ pc' = "done"
    /\ UNCHANGED <<req, dexDataMap, dexNext, verifiedResults, failures,
                   scoreArgs, tokenRisk>>

Next ==
    \/ PostAnalyze
    \/ PostJob
    \/ HoldingsResolve
    \/ DexResolve
    \/ VerifyResolve
    \/ Finish

Spec == Init /\ [][Next]_vars

(* --------------- the engine on inputs the pipeline hands it ------------- *)

EngineContracts == <<"0xc1", "0xc2", "0xc3", "0xc4", "0xc5">>
EngineSymbols == <<"TK1", "TK2", "TK3", "TK4", "TK5">>

EnginePairs ==
    {[chainId |-> "ethereum", liquidityUsd |-> 0, priceUsd |-> "1", priceChange24h |-> 0],
     [chainId |-> "ethereum", liquidityUsd |-> 20000, priceUsd |-> "1", priceChange24h |-> -40],
     [chainId |-> "ethereum", liquidityUsd |-> 200000, priceUsd |-> "0", priceChange24h |-> 0],
     [chainId |-> "ethereum", liquidityUsd |-> 1000000, priceUsd |-> "1", priceChange24h |-> 0]}

EngineDexData == {null} \cup {dexRecordOf(p) : p \in EnginePairs}

EngineChoices ==
    [balance : {"2000000000000000000", "3000000000000000000"},
     dex : EngineDexData,
     verified : BOOLEAN]

\* the state of analyzeWallet when Promise.all has resolved, for a valid
\* POST /analyze on chain 1
InitEngine ==
    \E n \in 1..MaxHoldings :
      \E c \in [1..n -> EngineChoices] :
        /\ pc = "lookups"
        /\ req = [endpoint |-> "analyze", walletAddress |-> GoodWallet, chainId |-> 1]
        /\ holdings = [i \in 1..n |->
                          [contractAddress |-> EngineContracts[i],
                           tokenSymbol |-> EngineSymbols[i],
                           balance |-> c[i].balance,
                           decimals |-> 18,
                           usdValue |-> null]]
        /\ dexDataMap = [a \in {EngineContracts[i] : i \in 1..n} |->
                            c[CHOOSE i \in 1..n : EngineContracts[i] = a].dex]
        /\ dexNext = n + 1
        /\ verifiedResults = [i \in 1..n |->
                                 [status |-> "fulfilled", value |-> c[i].verified]]
        /\ calls = [holdings |-> 1, dex |-> n, verify |-> n, build |-> 0]
        /\ failures = {}
        /\ response = noResponse
        /\ scoreArgs = null
        /\ tokenRisk = null

NextEngine == Finish

SpecEngine == InitEngine /\ [][NextEngine]_vars

(* ------------- the engine on wallets of up to HoldingsCap tokens --------- *)

WideContracts ==
    <<
      "0xd01", "0xd02", "0xd03", "0xd04", "0xd05",
      "0xd06", "0xd07", "0xd08", "0xd09", "0xd10",
      "0xd11", "0xd12", "0xd13", "0xd14", "0xd15",
      "0xd16", "0xd17", "0xd18", "0xd19", "0xd20"
    >>

WideSymbols ==
    <<
      "WK01", "WK02", "WK03", "WK04", "WK05",
      "WK06", "WK07", "WK08", "WK09", "WK10",
      "WK11", "WK12", "WK13", "WK14", "WK15",
      "WK16", "WK17", "WK18", "WK19", "WK20"
    >>

\* the holdings after the first: a listed token with deep liquidity and no
\* price, an unlisted unverified token, a priced token with deep liquidity
WideFillers ==
    {[balance |-> "2000000000000000000",
      dex |-> dexRecordOf([chainId |-> "ethereum", liquidityUsd |-> 1000000,
                           priceUsd |-> "0", priceChange24h |-> 0]),
      verified |-> TRUE],
     [balance |-> "2000000000000000000", dex |-> null, verified |-> FALSE],
     [balance |-> "2000000000000000000",
      dex |-> dexRecordOf([chainId |-> "ethereum", liquidityUsd |-> 1000000,
                           priceUsd |-> "1", priceChange24h |-> 0]),
      verified |-> TRUE]}

\* the state of analyzeWallet when Promise.all has resolved, for a wallet of
\* 1..HoldingsCap tokens: any first token, then m tokens like f and the rest
\* like g
InitWide ==
    \E n \in 1..HoldingsCap :
      \E first \in EngineChoices, m \in 0..(n - 1), f \in WideFillers, g \in WideFillers :
        LET c == [i \in 1..n |-> IF i = 1 THEN first ELSE IF i <= 1 + m THEN f ELSE g]
        IN  /\ pc = "lookups"
            /\ req = [endpoint |-> "analyze", walletAddress |-> GoodWallet, chainId |-> 1]
            /\ holdings = [i \in 1..n |->
                              [contractAddress |-> WideContracts[i],
                               tokenSymbol |-> WideSymbols[i],
                               balance |-> c[i].balance,
                               decimals |-> 18,
                               usdValue |-> null]]
            /\ dexDataMap = [a \in {WideContracts[i] : i \in 1..n} |->
                                c[CHOOSE i \in 1..n : WideContracts[i] = a].dex]
            /\ dexNext = n + 1
            /\ verifiedResults = [i \in 1..n |->
                                     [status |-> "fulfilled", value |-> c[i].verified]]
            /\ calls = [holdings |-> 1, dex |-> n, verify |-> n, build |-> 0]
            /\ failures = {}
            /\ response = noResponse
            /\ scoreArgs = null
            /\ tokenRisk = null

NextWide == Finish

SpecWide == InitWide /\ [][NextWide]_vars

(* ------------------------ the scorer on its own ------------------------- *)

PctSamples == {Pct(0, 1), Pct(100, 3), Pct(50, 1), Pct(101, 2), Pct(70, 1),
               Pct(141, 2), Pct(100, 1)}

LiquiditySamples == {0, 9999, 10000, 49999, 50000, 499999, 500000}

ChangeSamples == {-31, -30, 0, 30, 31}

ScoreDexData ==
    {null} \cup [present : {TRUE}, priceUsd : {1}, liquidityUsd : LiquiditySamples,
                 priceChange24h : ChangeSamples, hasLiquidityLock : BOOLEAN]

ScoreHolding ==
    [contractAddress |-> "0xc1", tokenSymbol |-> "TK1",
     balance |-> "2000000000000000000", decimals |-> 18, usdValue |-> null]

InitScore ==
    /\ pc = "score"
    /\ scoreArgs \in [holding : {ScoreHolding}, portfolioPercent : PctSamples,
                      dexData : ScoreDexData, isVerified : BOOLEAN]
    /\ tokenRisk = null
    /\ req = [endpoint |-> "none", walletAddress |-> <<>>, chainId |-> 0]
    /\ holdings = <<>>
    /\ dexDataMap = <<>>
    /\ dexNext = 0
    /\ verifiedResults = <<>>
    /\ calls = noCalls
    /\ failures = {}
    /\ response = noResponse

\* one call of scoreTokenRisk
ScoreToken ==
    /\ pc = "score"
    /\ tokenRisk' = scoreTokenRisk(scoreArgs.holding, scoreArgs.portfolioPercent,
                                   scoreArgs.dexData, scoreArgs.isVerified)
    /\ pc' = "scored"
    /\ UNCHANGED <<req, holdings, dexDataMap, dexNext, verifiedResults, calls,
                   failures, response, scoreArgs>>

NextScore == ScoreToken

SpecScore == InitScore /\ [][NextScore]_vars

(* ------------------------------- claims --------------------------------- *)

Scored == pc = "scored"

HasFlag(t, kind) == \E i \in 1..Len(t.flags) : t.flags[i].kind = kind

\* C1: whatever the holding, the MarketData record or its absence, the
\* verification boolean and the portfolio percentage, the riskScore that
\* scoreTokenRisk returns is an integer between 0 and 100 inclusive.
C1_ScoreInRange == Scored => tokenRisk.riskScore \in 0..100

\* C1 witness: every penalty applies (30 + 35 + 15 + 10 + 20 = 110) and the
\* returned score is the cap.
C1_Witness ==
    /\ Scored
    /\ ~scoreArgs.isVerified
    /\ scoreArgs.dexData.present
    /\ scoreArgs.dexData.liquidityUsd < 10000
    /\ ~scoreArgs.dexData.hasLiquidityLock
    /\ Abs(scoreArgs.dexData.priceChange24h) > 30
    /\ PctGt(scoreArgs.portfolioPercent, 70)
    /\ tokenRisk.riskScore = 100

C2_Base ==
    (IF scoreArgs.isVerified THEN 0 ELSE 30)
    + (IF scoreArgs.portfolioPercent.num > 70 * scoreArgs.portfolioPercent.den THEN 20
       ELSE IF scoreArgs.portfolioPercent.num > 50 * scoreArgs.portfolioPercent.den THEN 10
       ELSE 0)

C2_RecordPoints ==
    LET d == scoreArgs.dexData
    IN  (IF d.liquidityUsd < 10000 THEN 35
         ELSE IF d.liquidityUsd < 50000 THEN 20
         ELSE IF d.liquidityUsd < 500000 THEN 5 ELSE 0)
        + (IF d.hasLiquidityLock THEN 0 ELSE 15)
        + (IF d.priceChange24h > 30 \/ d.priceChange24h < -30 THEN 10 ELSE 0)

\* C2: without a MarketData record the liquidity category adds exactly 25 and
\* none of the liquidity-tier, lock or volatility points or flags; with a
\* record the 25 and its flag are never added, only the tier, lock and
\* volatility points.
C2_AbsenceExclusive ==
    Scored =>
        IF ~scoreArgs.dexData.present
        THEN /\ tokenRisk.riskScore = C2_Base + 25
             /\ HasFlag(tokenRisk, "NoLiquidityData")
             /\ ~HasFlag(tokenRisk, "CriticallyLowLiquidity")
             /\ ~HasFlag(tokenRisk, "LowLiquidity")
             /\ ~HasFlag(tokenRisk, "NoLiquidityLock")
             /\ ~HasFlag(tokenRisk, "HighVolatility")
        ELSE /\ ~HasFlag(tokenRisk, "NoLiquidityData")
             /\ tokenRisk.riskScore = Min(100, C2_Base + C2_RecordPoints)

\* C2 witness: an unverified token without a record at 100% of the portfolio
\* scores 30 + 25 + 20.
C2_Witness ==
    /\ Scored
    /\ ~scoreArgs.dexData.present
    /\ ~scoreArgs.isVerified
    /\ PctGt(scoreArgs.portfolioPercent, 70)
    /\ tokenRisk.riskScore = 75

\* C10: for the same holding, verification boolean and percentage, a record
\* with zero liquidity and no record at all give different TokenRisk outputs
\* (different scores and different flag lists).
C10_ZeroLiquidityIsNotAbsence ==
    (Scored /\ scoreArgs.dexData.present /\ scoreArgs.dexData.liquidityUsd = 0) =>
        LET absent == scoreTokenRisk(scoreArgs.holding, scoreArgs.portfolioPercent,
                                     null, scoreArgs.isVerified)
        IN  /\ tokenRisk # absent
            /\ tokenRisk.riskScore # absent.riskScore
            /\ tokenRisk.flags # absent.flags
            /\ HasFlag(absent, "NoLiquidityData")
            /\ ~HasFlag(tokenRisk, "NoLiquidityData")

\* C10 witness: a zero-liquidity record without a lock, whose liquidityUsd and
\* hasLiquidityLock output fields equal those of the no-record case.
C10_Witness ==
    /\ Scored
    /\ scoreArgs.dexData.present
    /\ scoreArgs.dexData.liquidityUsd = 0
    /\ ~scoreArgs.dexData.hasLiquidityLock
    /\ tokenRisk.liquidityUsd = 0
    /\ ~tokenRisk.hasLiquidityLock
    /\ HasFlag(tokenRisk, "CriticallyLowLiquidity")

Reported == pc = "done" /\ response.kind = "report"

ScoresOf(report) == {report.tokenRisks[i].riskScore : i \in 1..Len(report.tokenRisks)}

MaxOf(S) == CHOOSE m \in S : \A x \in S : x <= m

\* 2 * 10 * n times (mean * 0.6 + max * 0.4), an integer
C3_Scaled(report) ==
    LET n == Len(report.tokenRisks)
    IN  12 * SumSeq([i \in 1..n |-> report.tokenRisks[i].riskScore])
        + 8 * n * MaxOf(ScoresOf(report))

\* C3: for a non-empty report overallRiskScore is the integer nearest to
\* mean * 0.6 + max * 0.4 (a half rounds up), the maximum is the score of the
\* first entry of the sorted list, and a single-token report has that token's
\* score.
C3_OverallScore ==
    (Reported /\ Len(response.report.tokenRisks) > 0) =>
        LET r == response.report
            n == Len(r.tokenRisks)
        IN  /\ r.tokenRisks[1].riskScore = MaxOf(ScoresOf(r))
            /\ 20 * n * r.overallRiskScore - 10 * n <= C3_Scaled(r)
            /\ C3_Scaled(r) < 20 * n * r.overallRiskScore + 10 * n
            /\ (n = 1 => r.overallRiskScore = r.tokenRisks[1].riskScore)

\* C3 witness: several tokens with different scores whose weighted value lies
\* exactly half way between two integers.
C3_Witness ==
    /\ Reported
    /\ Len(response.report.tokenRisks) >= 2
    /\ Cardinality(ScoresOf(response.report)) >= 2
    /\ C3_Scaled(response.report)
          = 20 * Len(response.report.tokenRisks) * response.report.overallRiskScore
            - 10 * Len(response.report.tokenRisks)

C4_Ladder(score, level) ==
    /\ (level = "CRITICAL") <=> (score >= 70)
    /\ (level = "HIGH") <=> (50 <= score /\ score <= 69)
    /\ (level = "MEDIUM") <=> (30 <= score /\ score <= 49)
    /\ (level = "LOW") <=> (0 <= score /\ score <= 29)

\* C4: riskLevel is CRITICAL iff the overall score is at least 70, HIGH iff it
\* is 50..69, MEDIUM iff 30..49, LOW iff 0..29: in every report, and for every
\* score 0..100 put through the ladder.
C4_RiskLevelSteps ==
    /\ Reported => C4_Ladder(response.report.overallRiskScore, response.report.riskLevel)
    /\ Reported => \A score \in 0..100 : C4_Ladder(score, riskLevelOf(score))

\* C4 witness: a report whose overall score is exactly 70 and is CRITICAL.
C4_Witness ==
    /\ Reported
    /\ response.report.overallRiskScore = 70
    /\ response.report.riskLevel = "CRITICAL"

\* C8: concentrationRisk is set iff some entry of tokenRisks has a
\* portfolioPercentage strictly above 50.
C8_ConcentrationFlag ==
    Reported =>
        (response.report.flags.concentrationRisk
           <=> \E i \in 1..Len(response.report.tokenRisks) :
                  response.report.tokenRisks[i].portfolioPercentage.num
                    > 50 * response.report.tokenRisks[i].portfolioPercentage.den)

\* C8 witness: a token at exactly 50%, none above, and the flag is not set.
C8_Witness ==
    /\ Reported
    /\ \E i \in 1..Len(response.report.tokenRisks) :
          response.report.tokenRisks[i].portfolioPercentage.num
            = 50 * response.report.tokenRisks[i].portfolioPercentage.den
    /\ ~response.report.flags.concentrationRisk

\* position of the holding with the given contract address
PosOf(addr) == CHOOSE i \in 1..Len(holdings) : holdings[i].contractAddress = addr

\* C9: tokenRisks is a permutation of the per-token results (one entry per
\* holding), in descending riskScore order, and entries of equal score keep
\* the relative order of their holdings.
C9_StableDescending ==
    Reported =>
        LET ts == response.report.tokenRisks
        IN  /\ Len(ts) = Len(holdings)
            /\ \A i \in 1..Len(holdings) :
                  Cardinality({j \in 1..Len(ts) :
                      /\ ts[j].contractAddress = holdings[i].contractAddress
                      /\ ts[j].symbol = holdings[i].tokenSymbol}) = 1
            /\ \A i, j \in 1..Len(ts) :
                  i < j => /\ ts[i].riskScore >= ts[j].riskScore
                           /\ (ts[i].riskScore = ts[j].riskScore
                                 => PosOf(ts[i].contractAddress) < PosOf(ts[j].contractAddress))

\* C9 witness: two tokens of equal score that the sort moved in front of the
\* first holding.
C9_Witness ==
    /\ Reported
    /\ Len(response.report.tokenRisks) >= 3
    /\ response.report.tokenRisks[1].riskScore = response.report.tokenRisks[2].riskScore
    /\ response.report.tokenRisks[3].contractAddress = holdings[1].contractAddress
    /\ response.report.tokenRisks[3].riskScore < response.report.tokenRisks[2].riskScore

ReportFields == {"walletAddress", "chainId", "chainName", "totalTokensFound",
                 "estimatedPortfolioUsd", "overallRiskScore", "riskLevel",
                 "tokenRisks", "flags", "summary", "recommendations"}

BadRequest ==
    /\ req.endpoint \in {"analyze", "job"}
    /\ \/ ~(/\ Len(req.walletAddress) = 42
            /\ SubSeq(req.walletAddress, 1, 2) = <<"0", "x">>
            /\ \A i \in 3..Len(req.walletAddress) : req.walletAddress[i] \in HexDigits)
       \/ req.chainId \notin {1, 56, 137}

\* C5: on POST /analyze and on POST /job, a request with a malformed wallet
\* address or a chain outside {1, 56, 137} never gets a collaborator
\* (holdings, market-data or verification lookup) invoked.
C5_RejectBeforeCollaborators == BadRequest => calls = noCalls

AnalysisReturned == pc = "done" /\ calls.holdings > 0

\* C6: a failed holdings lookup leaves an empty holdings sequence, a failed
\* market-data lookup leaves null for its contract, a failed verification
\* lookup leaves false for its contract, and whatever lookups failed,
\* analyzeWallet returns a complete report, never an exception.
C6_FailuresBecomeAbsence ==
    /\ <<"holdings", "">> \in failures => holdings = <<>>
    /\ \A i \in 1..Len(holdings) :
          LET addr == holdings[i].contractAddress
          IN  /\ <<"dex", addr>> \in failures
                    => addr \in DOMAIN dexDataMap /\ dexDataMap[addr] = null
              /\ <<"verify", addr>> \in failures
                    => /\ verifiedResults[i].status = "fulfilled"
                       /\ verifiedResults[i].value = FALSE
                       /\ Reported =>
                            \A j \in 1..Len(response.report.tokenRisks) :
                               response.report.tokenRisks[j].contractAddress = addr
                                  => ~response.report.tokenRisks[j].isContractVerified
    /\ AnalysisReturned =>
          /\ response.kind = "report"
          /\ response.status = 200
          /\ DOMAIN response.report = ReportFields
          /\ response.report.totalTokensFound = Len(response.report.tokenRisks)
          /\ response.report.totalTokensFound = Len(holdings)

\* C6 witness: a report over two holdings, returned although one market-data
\* lookup and one verification lookup failed.
C6_Witness ==
    /\ Reported
    /\ Len(response.report.tokenRisks) = 2
    /\ \E a \in PipeContracts : <<"dex", a>> \in failures
    /\ \E a \in PipeContracts : <<"verify", a>> \in failures

\* C7: when the holdings lookup yields no holdings, analyzeWallet returns the
\* canonical empty report (0 tokens, score 0, LOW, no tokenRisks, all four
\* flags false, one recommendation) and neither the market-data lookup, the
\* verification lookup nor buildRiskReport is invoked.
C7_EmptyWalletShortCircuit ==
    (calls.holdings > 0 /\ pc # "holdings" /\ holdings = <<>>) =>
        /\ pc = "done"
        /\ response.kind = "report"
        /\ response.report.totalTokensFound = 0
        /\ response.report.overallRiskScore = 0
        /\ response.report.riskLevel = "LOW"
        /\ response.report.tokenRisks = <<>>
        /\ response.report.flags = [concentrationRisk |-> FALSE, rugPullRisk |-> FALSE,
                                    lowLiquidityRisk |-> FALSE, highVolatilityRisk |-> FALSE]
        /\ Len(response.report.recommendations) = 1
        /\ response.report.recommendations[1].kind = "NoTokensFound"
        /\ response.report.summary.kind = "NoHoldings"
        /\ calls.dex = 0
        /\ calls.verify = 0
        /\ calls.build = 0

\* C7 witness: the holdings lookup succeeded, no token had a balance, and the
\* empty report was returned.
C7_Witness ==
    /\ pc = "done"
    /\ calls.holdings = 1
    /\ holdings = <<>>
    /\ failures = {}
    /\ response.kind = "report"
    /\ response.report.totalTokensFound = 0

\* C11: with non-empty holdings buildRiskReport is invoked only once every
\* market-data lookup and every verification lookup has completed, and then
\* the market-data map and the verification map both have an entry for the
\* contract address of every holding.
C11_BuildAfterAllLookups ==
    (calls.build > 0 /\ Len(holdings) > 0) =>
        /\ dexNext = Len(holdings) + 1
        /\ calls.dex = Len(holdings)
        /\ calls.verify = Len(holdings)
        /\ \A i \in 1..Len(holdings) :
              /\ verifiedResults[i].status \in {"fulfilled", "rejected"}
              /\ holdings[i].contractAddress \in DOMAIN dexDataMap
              /\ holdings[i].contractAddress
                    \in DOMAIN verifiedMapOf(holdings, verifiedResults, Len(holdings))
              /\ verifiedMapOf(holdings, verifiedResults,
                               Len(holdings))[holdings[i].contractAddress] \in BOOLEAN
              /\ \/ dexDataMap[holdings[i].contractAddress] = null
                 \/ dexDataMap[holdings[i].contractAddress].present

\* C11 witness: buildRiskReport ran over two holdings, one with a record and
\* one whose market-data lookup gave null.
C11_Witness ==
    /\ calls.build = 1
    /\ Len(holdings) = 2
    /\ dexDataMap[holdings[1].contractAddress].present
    /\ dexDataMap[holdings[2].contractAddress] = null
    /\ verifiedResults[1].status = "fulfilled"
    /\ verifiedResults[1].value

Above50(report) ==
    {i \in 1..Len(report.tokenRisks) :
        report.tokenRisks[i].portfolioPercentage.num
          > 50 * report.tokenRisks[i].portfolioPercentage.den}

Diversify(report) ==
    {k \in 1..Len(report.recommendations) : report.recommendations[k].kind = "Diversify"}

\* a/b >= c/d for positive denominators
PctGeq(p, q) == p.num * q.den >= q.num * p.den

PctEq(p, q) == p.num * q.den = q.num * p.den

\* the holding a tokenRisks entry was scored from
HoldingOf(t) == holdings[PosOf(t.contractAddress)]

\* C13: a holding gets the equal weight 100 / (number of holdings) exactly
\* when the total portfolio USD is 0 or the holding has no USD value; in every
\* other case, a present USD value included, its percentage is
\* usdValue / totalPortfolioUsd * 100.
C13_EqualWeightFallback ==
    Reported =>
        LET r == response.report
        IN  \A j \in 1..Len(r.tokenRisks) :
               LET h == HoldingOf(r.tokenRisks[j])
               IN  IF r.estimatedPortfolioUsd = 0 \/ ~h.usdValue.present
                   THEN PctEq(r.tokenRisks[j].portfolioPercentage, Pct(100, Len(holdings)))
                   ELSE PctEq(r.tokenRisks[j].portfolioPercentage,
                              Pct(h.usdValue.value * 100, r.estimatedPortfolioUsd))

KindsOf(report) ==
    {report.recommendations[k].kind : k \in 1..Len(report.recommendations)}

\* C14: a report over at most HoldingsCap holdings never carries both the
\* "reduce or exit high-risk positions" advisory and the "portfolio looks
\* relatively safe" advisory; a token score of 70 or more forces
\* overallRiskScore >= 30, so riskLevel is not LOW while such a token exists.
C14_NoSafeWithHighRisk ==
    (Reported /\ Len(response.report.tokenRisks) <= HoldingsCap) =>
        LET r == response.report
        IN  /\ ~({"ReduceHighRisk", "LooksSafe"} \subseteq KindsOf(r))
            /\ "ReduceHighRisk" \in KindsOf(r) <=> (\E x \in ScoresOf(r) : x >= 70)
            /\ (\E x \in ScoresOf(r) : x >= 70) =>
                  /\ r.overallRiskScore >= 30
                  /\ r.riskLevel # "LOW"

\* C14 witness: HoldingsCap tokens, one of them at exactly 70 and the others at
\* 0, so the overall score is exactly 30 and only the high-risk advisory shows.
C14_Witness ==
    /\ Reported
    /\ Len(response.report.tokenRisks) = HoldingsCap
    /\ response.report.tokenRisks[1].riskScore = 70
    /\ \A i \in 2..HoldingsCap : response.report.tokenRisks[i].riskScore = 0
    /\ response.report.overallRiskScore = 30
    /\ "ReduceHighRisk" \in KindsOf(response.report)
    /\ "LooksSafe" \notin KindsOf(response.report)

====
